---- MODULE Spec2Model ----
(***************************************************************************)
(* ChatGPT Conversation Exporter: the batch export run of the content      *)
(* script (exportAllConversations), the single-item export path            *)
(* (exportCurrentConversation), the service worker's download handler and  *)
(* its in-memory copy of the tracking set, the popup's Clear tracking, and *)
(* the persisted tracking set in chrome.storage.local that all of them     *)
(* read and write.                                                         *)
(*                                                                         *)
(* Every await of the code is a boundary between two actions: the code     *)
(* between two awaits runs without interruption (one JavaScript task), and *)
(* between two tasks any other process (service worker, popup, host page)  *)
(* may take a step.  A chrome.storage.local call takes effect on the       *)
(* persisted value in one step; its callback is a later task.              *)
(***************************************************************************)
EXTENDS Integers, Sequences, FiniteSets, TLC

(* ------------------------------ bounds --------------------------------- *)
NumIds == 2          \* number of distinct conversation ids
MaxLinks == 2        \* longest candidate list (sidebar links)
MaxSingles == 1      \* calls of exportCurrentConversation in one behaviour
MaxRestarts == 1     \* restarts of the service worker in one behaviour
MaxExtraRuns == 1    \* further calls of exportAllConversations in progress
MaxCount == 2        \* largest number of conversation links in the sidebar
MaxMsgs == 2         \* largest number of message elements in the document
MaxObservers == 3    \* MutationObservers created by setupAutoSync
MaxTimers == 3       \* debounce timers set in one behaviour
MaxSetupTimers == 2  \* setTimeout(setupAutoSync) timers pending at once
MaxMessages == 2     \* most messages of a conversation record
MaxTitleLen == 3     \* longest title, in characters, of the enumerated titles
MaxKids == 2         \* most child nodes of an element of a fragment
MaxClasses == 2      \* most classes of a code element, most ancestors of a pre

\* const maxScrollAttempts = 50
maxScrollAttempts == 50
\* if (noChangeCount >= 3) break
noChangeLimit == 3
\* .substring(0, 100)
filenameLimit == 100
\* a 200-character title
longTitleLen == 200
\* content.substring(0, 50)
titleLimit == 50
\* a first user message of more than 50 characters
longMessageLen == 60

NoId == 0            \* getConversationIdFromUrl() returning null
Ids == 1..NumIds
Requesters == {"batch", "single"}

VARIABLES
  storage,       \* chrome.storage.local 'exportedConversations', as a set
  swSet,         \* service worker: let exportedConversations = new Set()
  swInit,        \* service worker initialize(): "pending" | "read" | "done"
  swStored,      \* service worker initialize(): the value its get returned
  reqState,      \* 'download' message of each requester:
                 \*   "none" | "sent" | "ok" | "fail" | "lastError"
  reqId,         \* conversationId carried by that message
  links,         \* getAllConversationLinks() after the list loader
  pc,            \* exportAllConversations: position of the run
  i,             \* exportAllConversations: loop index, 1-based
  results,       \* exportAllConversations: results
  exportedSet,   \* exportAllConversations: let exportedSet
  markRead,      \* markAsExported of the run: const exported
  sPc,           \* exportCurrentConversation: position
  sId,           \* exportCurrentConversation: conversation.id
  sMarkRead,     \* markAsExported of the single-item path: const exported
  singles,       \* number of calls of exportCurrentConversation so far
  restarts,      \* number of restarts of the service worker so far
  item,          \* history: what the run did for each candidate
  storeAtStart,  \* history: persisted set when the run was started
  storeAtRead,   \* history: persisted set when the run read it (line 374)
  downloaded,    \* history: ids downloaded and saved by the service worker
                 \*   since the last Clear tracking
  sinceClear,    \* history: ids whose download was done, or whose export was
                 \*   under way, since the last Clear tracking
  clearInRun,    \* history: a Clear tracking completed after the run started
  popupOpen,     \* popup: a popup document exists
  popupAwaits,   \* popup handleExportAll: the run whose response it awaits
                 \*   (buttons disabled): "none" | "first" | "extra"
  extraRuns,     \* calls of exportAllConversations in progress besides the
                 \*   one followed step by step (pc)
  lPc,           \* loadAllSidebarConversations: "idle" | "sleep" | "done"
  scrollContainer, \* loader: a scroll container was found
  attempts,      \* loader: let attempts
  lastCount,     \* loader: let lastCount
  currentCount,  \* loader: let currentCount
  noChangeCount, \* loader: let noChangeCount
  scrollTop,     \* scrollContainer.scrollTop: "top" | "bottom" | "other"
  iterations,    \* history: scroll iterations the loader has performed
  noGrowth,      \* history: consecutive iterations whose recount was not
                 \*   greater than the count before
  wInit,         \* content script initialize(): "pending" | "done"
  autoSyncEnabled, \* content script: let autoSyncEnabled
  observer,      \* content script: let observer (0 is null)
  observersMade, \* number of MutationObservers created by setupAutoSync
  subs,          \* active subscriptions: [obs, target] the observer obs
                 \*   observes the container of transcript target
  lastMessageCount, \* content script: let lastMessageCount
  pageUrl,       \* conversation id in window.location
  container,     \* transcript whose container element is in the document,
                 \*   NoId when there is none
  pending,       \* debounce timers set and neither fired nor cleared
  autoSyncTimeout, \* window.autoSyncTimeout (0 is undefined)
  timersSet,     \* number of debounce timers set so far
  setupTimers,   \* pending timers that call setupAutoSync: [init] set by
                 \*   initialize(), [url] set by the URL-change observer
  bursts,        \* history: bursts of qualifying changes begun
  burstOpen,     \* history: a qualifying change since the last export that
                 \*   the newest timer started
  autoExports,   \* history: exports started by debounce timers
  settled,       \* history: "none" | "changed" (the transcript has changed)
                 \*   | "setup" (setupAutoSync has run since that change)
  arg,           \* argument of a call of one of the pure functions
  ret,           \* its return value
  returned,      \* the call has returned
  docFrom,       \* history: for each candidate, the id in the URL of the
                 \*   page its document was extracted from
  progress       \* history: the progress events the run has passed to its
                 \*   progressCallback, in order

exportVars == << storage, swSet, swInit, swStored, reqState, reqId,
                 links, pc, i, results,
                 exportedSet, markRead, sPc, sId, sMarkRead, singles, restarts,
                 item, storeAtStart,
                 storeAtRead, downloaded, sinceClear, clearInRun >>

popupVars == << popupOpen, popupAwaits, extraRuns >>
loaderVars == << lPc, scrollContainer, attempts, lastCount, currentCount,
                 noChangeCount, scrollTop, iterations, noGrowth >>
timerVars == << pending, autoSyncTimeout, timersSet, setupTimers >>
watcherVars == << wInit, autoSyncEnabled, observer, observersMade, subs,
                  lastMessageCount, pageUrl, container, timerVars,
                  bursts, burstOpen, autoExports, settled >>

\* the state outside the export paths
callVars == << arg, ret, returned >>

traceVars == << docFrom, progress >>

sideVars == << popupVars, loaderVars, watcherVars, callVars, traceVars >>

vars == << exportVars, sideVars >>

swVars == << swSet, swInit, swStored, restarts >>
singleVars == << sPc, sId, sMarkRead, singles >>
batchVars == << pc, i, results, exportedSet, markRead, item,
                storeAtStart, storeAtRead >>
clearVars == << sinceClear, clearInRun >>

(* ------------------------------ helpers -------------------------------- *)
RECURSIVE SeqsUpTo(_, _)
SeqsUpTo(S, n) ==
  IF n = 0 THEN { << >> }
  ELSE LET shorter == SeqsUpTo(S, n - 1)
       IN  shorter \cup { Append(s, x) : s \in shorter, x \in S }

\* Conversation ids are opaque: a candidate list stands for every list got
\* from it by renaming ids, so the lists are taken with their ids numbered
\* in order of first occurrence.
FirstOccurrenceOrder(s) ==
  \A k \in 1..Len(s) : \A id \in 1..(s[k] - 1) : \E j \in 1..(k - 1) : s[j] = id

CandidateLists == { s \in SeqsUpTo(Ids, MaxLinks) : FirstOccurrenceOrder(s) }

NoResults == [total |-> 0, exported |-> 0, skipped |-> 0, failed |-> 0,
              errors |-> << >>]

NewResults(n) == [total |-> n, exported |-> 0, skipped |-> 0, failed |-> 0,
                  errors |-> << >>]

\* history of one candidate:
\*   outcome    "none" | "skipped" | "failed" | "exported"
\*   reached    "none" | "clicked" | "extracted" | "submitted"
\*   sink       what downloadFile did: "none" | "ok" | "dlFail" | "saveFail"
\*              | "lastError"
\*   load       what waitForConversationLoad saw: "none" | "seen" (a poll
\*              saw the candidate's id in the URL and a message element)
\*              | "wrong" (it returned true on another view) | "timeout"
\*   markFailed the run's markAsExported write failed
\*   delayed    the run slept 1.5 s after the candidate
NoItem == [outcome |-> "none", reached |-> "none", load |-> "none",
           sink |-> "none", markFailed |-> FALSE, delayed |-> FALSE]

\* results.skipped++
CountSkipped(r) == [r EXCEPT !.skipped = @ + 1]

\* results.exported++
CountExported(r) == [r EXCEPT !.exported = @ + 1]

CountFailed_NoIncrement(r, diag) == [r EXCEPT !.errors = Append(@, diag)]

CountFailed_NoDiagnostic(r, diag) == [r EXCEPT !.failed = @ + 1]

\* results.failed++; results.errors.push(diag)
CountFailed(r, diag) ==
  [r EXCEPT !.failed = @ + 1, !.errors = Append(@, diag)]

AlreadyExported_Never(set, id) == FALSE

\* exportedSet.has(link.id)
AlreadyExported(set, id) == id \in set

\* What the code reads from the host page (the URL, the message elements)
\* is an input of the step that reads it: the page belongs to the host and
\* to the user, and may change in any way between two tasks of the script.
\*   url      id in window.location.pathname, NoId when there is none
\*   msgs     "none": no message element; "empty": message elements but
\*            no extractable content; "ok": extractable messages
PageViews == [url : Ids \cup {NoId}, msgs : {"none", "empty", "ok"}]

LoadObserved_UrlOnly(page, expectedId) == page.url = expectedId

\* waitForConversationLoad: currentId === expectedId && messages.length > 0
LoadObserved(page, expectedId) ==
  page.url = expectedId /\ page.msgs # "none"

\* extractCurrentConversation() returns a record (not null)
Extractable(page) == page.msgs = "ok"

\* markAsExported: exported.add(conversationId)
MarkAdd(read, id) == read \cup {id}

\* the loop's i++ and its test i < links.length, then the return
AfterItem(k) == IF k + 1 > Len(links) THEN "done" ELSE "check"

Cur == links[i]

NoCandidates_UpToOne(ls) == Len(ls) <= 1

\* if (links.length === 0)
NoCandidates(ls) == Len(ls) = 0

(* ------------------------------- Init ----------------------------------- *)
InitProgram ==
  /\ storage \in SUBSET Ids
  /\ swSet = {}
  /\ swInit = "pending"
  /\ swStored = {}
  /\ reqState = [r \in Requesters |-> "none"]
  /\ reqId = [r \in Requesters |-> NoId]
  /\ links \in CandidateLists
  /\ pc = "idle"
  /\ i = 0
  /\ results = NoResults
  /\ exportedSet = {}
  /\ markRead = {}
  /\ sPc = "idle"
  /\ sId = NoId
  /\ sMarkRead = {}
  /\ singles = 0
  /\ restarts = 0
  /\ item = [k \in 1..Len(links) |-> NoItem]
  /\ storeAtStart = {}
  /\ storeAtRead = {}
  /\ downloaded = storage
  /\ sinceClear = Ids
  /\ clearInRun = FALSE
  /\ popupOpen = FALSE
  /\ popupAwaits = "none"
  /\ extraRuns = 0
  /\ lPc = "idle"
  /\ scrollContainer = FALSE
  /\ attempts = 0
  /\ lastCount = 0
  /\ currentCount = 0
  /\ noChangeCount = 0
  /\ scrollTop = "other"
  /\ iterations = 0
  /\ noGrowth = 0
  /\ wInit = "pending"
  /\ autoSyncEnabled = FALSE
  /\ observer = 0
  /\ observersMade = 0
  /\ subs = {}
  /\ lastMessageCount = 0
  /\ pageUrl = 1
  /\ container = NoId
  /\ pending = {}
  /\ autoSyncTimeout = 0
  /\ timersSet = 0
  /\ setupTimers = [init |-> 0, url |-> 0]
  /\ bursts = 0
  /\ burstOpen = FALSE
  /\ autoExports = 0
  /\ settled = "none"
  /\ docFrom = [k \in 1..Len(links) |-> NoId]
  /\ progress = << >>

\* no call of a pure function is followed
NoArg == << >>

Init == InitProgram /\ arg = NoArg /\ ret = << >> /\ returned = FALSE

\* a call of a pure function with an argument out of inputs; the functions
\* read neither the tracking set nor the candidate list
InitCall(inputs) ==
  /\ InitProgram
  /\ storage = {} /\ links = << >>
  /\ arg \in inputs
  /\ ret = << >>
  /\ returned = FALSE

\* the loader and the watcher neither read nor write the tracking set and
\* the candidate list: their specifications start with both empty
InitPage == Init /\ storage = {} /\ links = << >>

(* -------------------- exportAllConversations (batch) -------------------- *)
\* 'exportAll' message: the run starts and awaits loadAllSidebarConversations
StartStep ==
  /\ pc = "idle"
  /\ pc' = "loading"
  /\ storeAtStart' = storage
  /\ clearInRun' = FALSE
  /\ UNCHANGED << storage, swVars, reqState, reqId, links, i,
                  results, exportedSet, markRead, singleVars, item,
                  storeAtRead, downloaded, sinceClear >>

StartBatch == StartStep /\ UNCHANGED sideVars

\* the loader has returned: links.length === 0 aborts, else results is built
\* and getExportedConversations() is called
BatchLoaded ==
  /\ pc = "loading"
  /\ IF NoCandidates(links)
       THEN pc' = "aborted" /\ UNCHANGED results
       ELSE pc' = "readStore" /\ results' = NewResults(Len(links))
  /\ UNCHANGED << storage, swVars, reqState, reqId, links, sideVars, i,
                  exportedSet, markRead, singleVars, item, storeAtStart,
                  storeAtRead, downloaded, clearVars >>

\* let exportedSet = await getExportedConversations()
BatchReadStore ==
  /\ pc = "readStore"
  /\ exportedSet' = storage
  /\ storeAtRead' = storage
  /\ i' = 1
  /\ pc' = "check"
  /\ UNCHANGED << storage, swVars, reqState, reqId, links, sideVars, results,
                  markRead, singleVars, item, storeAtStart, downloaded,
                  clearVars >>

BatchCheck_NoAwait ==
  /\ pc = "check"
  /\ \/ /\ AlreadyExported(exportedSet, Cur)
        /\ results' = CountSkipped(results)
        /\ item' = [item EXCEPT ![i].outcome = "skipped"]
     \/ /\ ~AlreadyExported(exportedSet, Cur)
        /\ \/ /\ results' = CountFailed(results, "LinkNotFound")
              /\ item' = [item EXCEPT ![i].outcome = "failed"]
           \/ /\ item' = [item EXCEPT ![i].reached = "clicked"]
              /\ UNCHANGED results
  /\ pc' = AfterItem(i)
  /\ i' = i + 1
  /\ UNCHANGED << storage, swVars, reqState, reqId, links, sideVars,
                  exportedSet, markRead, singleVars, storeAtStart,
                  storeAtRead, downloaded, clearVars >>

\* one loop iteration up to its first await: the dedup check, the look-up
\* of the link element, and the click
CheckStep ==
  /\ pc = "check"
  /\ \/ /\ AlreadyExported(exportedSet, Cur)
        /\ results' = CountSkipped(results)
        /\ item' = [item EXCEPT ![i].outcome = "skipped"]
        /\ pc' = AfterItem(i)
        /\ i' = i + 1
     \/ /\ ~AlreadyExported(exportedSet, Cur)
        /\ \/ \* document.querySelector(`a[href=...]`) returns null
              /\ results' = CountFailed(results, "LinkNotFound")
              /\ item' = [item EXCEPT ![i].outcome = "failed"]
              /\ pc' = AfterItem(i)
              /\ i' = i + 1
           \/ \* linkElement.click(); await waitForConversationLoad(...)
              /\ item' = [item EXCEPT ![i].reached = "clicked"]
              /\ pc' = "wait"
              /\ UNCHANGED << results, i >>
  /\ UNCHANGED << storage, swVars, reqState, reqId, links,
                  exportedSet, markRead, singleVars, storeAtStart,
                  storeAtRead, downloaded, clearVars >>

BatchCheck == CheckStep /\ UNCHANGED sideVars

\* waitForConversationLoad: a poll sees the expected conversation, sleep(500)
BatchPollLoaded ==
  /\ pc = "wait"
  /\ \E page \in PageViews :
       /\ LoadObserved(page, Cur)
       /\ item' = [item EXCEPT ![i].load =
                     IF page.url = links[i] /\ page.msgs # "none"
                       THEN "seen" ELSE "wrong"]
  /\ pc' = "settle"
  /\ UNCHANGED << storage, swVars, reqState, reqId, links, sideVars, i,
                  results, exportedSet, markRead, singleVars,
                  storeAtStart, storeAtRead, downloaded, clearVars >>

BatchTimeout_Retry ==
  /\ pc = "wait"
  /\ \E page \in PageViews : ~LoadObserved(page, Cur)
  /\ pc' = "check"
  /\ UNCHANGED << storage, swVars, reqState, reqId, links, sideVars, i,
                  results, item, exportedSet, markRead, singleVars,
                  storeAtStart, storeAtRead, downloaded, clearVars >>

\* waitForConversationLoad: the last poll within 10 s fails; 'continue'
BatchTimeout ==
  /\ pc = "wait"
  /\ \E page \in PageViews : ~LoadObserved(page, Cur)
  /\ results' = CountFailed(results, "Timeout")
  /\ item' = [item EXCEPT ![i].outcome = "failed", ![i].load = "timeout"]
  /\ pc' = AfterItem(i)
  /\ i' = i + 1
  /\ UNCHANGED << storage, swVars, reqState, reqId, links, sideVars,
                  exportedSet, markRead, singleVars, storeAtStart,
                  storeAtRead, downloaded, clearVars >>

\* after the load: extractCurrentConversation() on the page as it is now,
\* then the 'download' message with conversationId: link.id
ExtractStep(page) ==
  /\ pc = "settle"
  /\ \/ /\ ~Extractable(page)
        /\ results' = CountFailed(results, "ExtractFailed")
        /\ item' = [item EXCEPT ![i].outcome = "failed",
                                ![i].reached = "extracted"]
        /\ pc' = AfterItem(i)
        /\ i' = i + 1
        /\ UNCHANGED << reqState, reqId >>
     \/ /\ Extractable(page)
        /\ reqState' = [reqState EXCEPT !["batch"] = "sent"]
        /\ reqId' = [reqId EXCEPT !["batch"] = Cur]
        /\ item' = [item EXCEPT ![i].reached = "submitted"]
        /\ pc' = "await"
        /\ UNCHANGED << results, i >>
  /\ UNCHANGED << storage, swVars, links, exportedSet, markRead,
                  singleVars, storeAtStart, storeAtRead, downloaded,
                  clearVars >>

BatchExtract ==
  /\ \E page \in PageViews : ExtractStep(page)
  /\ UNCHANGED sideVars

\* the same step, with the conversation the document of the request was
\* extracted from (conversation.id, the id in the URL at that moment)
\* recorded for the candidate
BatchExtractFrom ==
  /\ \E page \in PageViews :
       /\ ExtractStep(page)
       /\ docFrom' = IF Extractable(page)
                       THEN [docFrom EXCEPT ![i] = page.url] ELSE docFrom
  /\ UNCHANGED << popupVars, loaderVars, watcherVars, callVars, progress >>

ProgressEvent_FromZero(current, status) ==
  [current |-> current - 1, total |-> Len(links), status |-> status]

\* progressCallback({ current: i + 1, total: links.length, title, status })
\* in the loop; current is i + 1 of the code, the position of the candidate
ProgressEvent(current, status) ==
  [current |-> current, total |-> Len(links), status |-> status]

\* the event before loadAllSidebarConversations()
ScrollingEvent == [current |-> 0, total |-> 0, status |-> "scrolling sidebar"]

\* the steps of the run that call progressCallback, with their events
\* recorded: the start of the run,
StartBatchProgress ==
  /\ StartStep
  /\ progress' = Append(progress, ScrollingEvent)
  /\ UNCHANGED << popupVars, loaderVars, watcherVars, callVars, docFrom >>

\* the top of a loop iteration ('checking', and 'loading' if the candidate
\* is not skipped),
BatchCheckProgress ==
  /\ CheckStep
  /\ progress' =
       progress \o << ProgressEvent(i, "checking") >>
       \o (IF AlreadyExported(exportedSet, Cur) THEN << >>
           ELSE << ProgressEvent(i, "loading") >>)
  /\ UNCHANGED << popupVars, loaderVars, watcherVars, callVars, docFrom >>

\* and the step after waitForConversationLoad has returned true
BatchExtractProgress ==
  /\ \E page \in PageViews : ExtractStep(page)
  /\ progress' = Append(progress, ProgressEvent(i, "exporting"))
  /\ UNCHANGED << popupVars, loaderVars, watcherVars, callVars, docFrom >>

\* the sendMessage callback: lastError rejects (catch: failed), any response
\* resolves and the run calls markAsExported(link.id)
BatchOnResponse ==
  /\ pc = "await"
  /\ reqState["batch"] \notin {"none", "sent"}
  /\ IF reqState["batch"] = "lastError"
       THEN /\ results' = CountFailed(results, "Error")
            /\ item' = [item EXCEPT ![i].outcome = "failed",
                                    ![i].sink = "lastError"]
            /\ pc' = "delay"
       ELSE /\ item' = [item EXCEPT ![i].sink = reqState["batch"]]
            /\ pc' = "markGet"
            /\ UNCHANGED results
  /\ reqState' = [reqState EXCEPT !["batch"] = "none"]
  /\ reqId' = [reqId EXCEPT !["batch"] = NoId]
  /\ UNCHANGED << storage, swVars, links, sideVars, i, exportedSet, markRead,
                  singleVars, storeAtStart, storeAtRead, downloaded,
                  clearVars >>

\* markAsExported: const exported = await getExportedConversations()
BatchMarkGet ==
  /\ pc = "markGet"
  /\ markRead' = storage
  /\ pc' = "markSet"
  /\ UNCHANGED << storage, swVars, reqState, reqId, links, sideVars, i,
                  results, exportedSet, singleVars, item, storeAtStart,
                  storeAtRead, downloaded, clearVars >>

\* markAsExported: exported.add(id); chrome.storage.local.set(..., resolve)
\* the write is applied, or fails (lastError) and leaves the value as it was
BatchMarkSet ==
  /\ pc = "markSet"
  /\ \/ /\ storage' = MarkAdd(markRead, Cur)
        /\ UNCHANGED item
     \/ /\ item' = [item EXCEPT ![i].markFailed = TRUE]
        /\ UNCHANGED storage
  /\ markRead' = {}
  /\ pc' = "markDone"
  /\ UNCHANGED << swVars, reqState, reqId, links, sideVars, i, results,
                  exportedSet, singleVars, storeAtStart, storeAtRead,
                  downloaded, clearVars >>

\* after await markAsExported: exportedSet.add(link.id); results.exported++
BatchMarkDone ==
  /\ pc = "markDone"
  /\ exportedSet' = exportedSet \cup {Cur}
  /\ results' = CountExported(results)
  /\ item' = [item EXCEPT ![i].outcome = "exported"]
  /\ pc' = "delay"
  /\ UNCHANGED << storage, swVars, reqState, reqId, links, sideVars, i,
                  markRead, singleVars, storeAtStart, storeAtRead,
                  downloaded, clearVars >>

\* await sleep(1500), then the next iteration or the return
BatchDelay ==
  /\ pc = "delay"
  /\ item' = [item EXCEPT ![i].delayed = TRUE]
  /\ pc' = AfterItem(i)
  /\ i' = i + 1
  /\ UNCHANGED << storage, swVars, reqState, reqId, links, sideVars, results,
                  exportedSet, markRead, singleVars, storeAtStart,
                  storeAtRead, downloaded, clearVars >>

(* ---------------- exportCurrentConversation (single item) --------------- *)
\* called by the 'exportCurrent' message and by the auto-sync timer:
\* extractCurrentConversation() succeeded, the 'download' message is sent
ExportCurrent ==
  /\ sPc = "idle"
  /\ singles < MaxSingles
  /\ singles' = singles + 1
  /\ \E page \in PageViews :
       /\ Extractable(page)
       /\ sId' = page.url
       /\ reqId' = [reqId EXCEPT !["single"] = page.url]
  /\ reqState' = [reqState EXCEPT !["single"] = "sent"]
  /\ sPc' = "await"
  /\ UNCHANGED << storage, swVars, links, sideVars, batchVars, sMarkRead,
                  downloaded, clearVars >>

\* resolve(response || { success: true }); then response.success
SingleSuccess(resp) == resp \in {"ok", "lastError"}

\* the sendMessage callback; markAsExported only if response.success && id
SingleOnResponse ==
  /\ sPc = "await"
  /\ reqState["single"] \notin {"none", "sent"}
  /\ IF SingleSuccess(reqState["single"]) /\ sId # NoId
       THEN sPc' = "markGet" /\ UNCHANGED sId
       ELSE sPc' = "idle" /\ sId' = NoId
  /\ reqState' = [reqState EXCEPT !["single"] = "none"]
  /\ reqId' = [reqId EXCEPT !["single"] = NoId]
  /\ UNCHANGED << storage, swVars, links, sideVars, batchVars, sMarkRead, singles,
                  downloaded, clearVars >>

\* markAsExported: const exported = await getExportedConversations()
SingleMarkGet ==
  /\ sPc = "markGet"
  /\ sMarkRead' = storage
  /\ sPc' = "markSet"
  /\ UNCHANGED << storage, swVars, reqState, reqId, links, sideVars,
                  batchVars, sId, singles, downloaded, clearVars >>

\* markAsExported: exported.add(id); chrome.storage.local.set(..., resolve)
SingleMarkSet ==
  /\ sPc = "markSet"
  /\ \/ storage' = MarkAdd(sMarkRead, sId)
     \/ UNCHANGED storage
  /\ sPc' = "idle"
  /\ sId' = NoId
  /\ sMarkRead' = {}
  /\ UNCHANGED << swVars, reqState, reqId, links, sideVars, batchVars, singles,
                  downloaded, clearVars >>

(* ---------------------------- service worker ---------------------------- *)
\* initialize(): await chrome.storage.local.get([...]) reads the store
SWInitRead ==
  /\ swInit = "pending"
  /\ swStored' = storage
  /\ swInit' = "read"
  /\ UNCHANGED << storage, swSet, restarts, reqState, reqId, links, sideVars,
                  batchVars, singleVars, downloaded, clearVars >>

\* initialize(): exportedConversations = new Set(stored.exportedConversations)
SWInitAssign ==
  /\ swInit = "read"
  /\ swSet' = swStored
  /\ swStored' = {}
  /\ swInit' = "done"
  /\ UNCHANGED << storage, restarts, reqState, reqId, links, sideVars, batchVars,
                  singleVars, downloaded, clearVars >>

\* the browser stops the idle service worker; the next event starts it anew
\* (let exportedConversations = new Set(); initialize())
SWRestart ==
  /\ swInit = "done"
  /\ restarts < MaxRestarts
  /\ restarts' = restarts + 1
  /\ \A r \in Requesters : reqState[r] # "sent"
  /\ swSet' = {}
  /\ swInit' = "pending"
  /\ UNCHANGED << storage, swStored, reqState, reqId, links, sideVars,
                  batchVars, singleVars, downloaded, clearVars >>

\* if (conversationId) exportedConversations.add(conversationId)
TrackAdd(set, id) == IF id = NoId THEN set ELSE set \cup {id}

\* downloadFile for the 'download' message of requester r, from the
\* resolution of chrome.downloads.download to the return value:
\*   "dlFail"   chrome.downloads.download rejects        -> {success:false}
\*   "saveFail" download done, storage.set rejects       -> {success:false}
\*   "ok"       download done, in-memory set saved       -> {success:true}
DownloadFile(r) ==
  /\ reqState[r] = "sent"
  /\ \E out \in {"ok", "dlFail", "saveFail"} :
       /\ out = "saveFail" => reqId[r] # NoId
       /\ swSet' = IF out = "dlFail" THEN swSet ELSE TrackAdd(swSet, reqId[r])
       /\ storage' = IF out = "ok" /\ reqId[r] # NoId THEN swSet' ELSE storage
       /\ reqState' = [reqState EXCEPT ![r] = out]
       /\ downloaded' = IF out = "ok" THEN TrackAdd(downloaded, reqId[r])
                        ELSE downloaded
       /\ sinceClear' = IF out = "dlFail" THEN sinceClear
                        ELSE TrackAdd(sinceClear, reqId[r])
  /\ UNCHANGED << swInit, swStored, restarts, reqId, links, sideVars, batchVars,
                  singleVars, clearInRun >>

\* the message port closes without a response: chrome.runtime.lastError
NoResponse(r) ==
  /\ reqState[r] = "sent"
  /\ reqState' = [reqState EXCEPT ![r] = "lastError"]
  /\ UNCHANGED << storage, swVars, reqId, links, sideVars, batchVars,
                  singleVars, downloaded, clearVars >>

(* ---------------------- loadAllSidebarConversations --------------------- *)
\* getAllConversationLinks().length at the moment of a recount: the sidebar
\* belongs to the host page, which adds and drops links as it likes
SidebarCounts == 0..MaxCount

ScrollOn_OneMore(att) == att <= maxScrollAttempts

\* while (attempts < maxScrollAttempts)
ScrollOn(att) == att < maxScrollAttempts

\* the call up to its first await: no sidebar returns 0; else the locals are
\* set, the loop is entered and the container scrolled to its bottom
LoaderStart ==
  /\ lPc \in {"idle", "done"}
  /\ \E found \in BOOLEAN, count \in SidebarCounts :
       IF ~found
         THEN /\ lPc' = "done"
              /\ scrollContainer' = FALSE
              /\ lastCount' = 0 /\ currentCount' = 0 /\ noChangeCount' = 0
              /\ attempts' = 0
              /\ iterations' = 0
              /\ UNCHANGED scrollTop
         ELSE /\ scrollContainer' = TRUE
              /\ lastCount' = 0 /\ currentCount' = count /\ noChangeCount' = 0
              /\ attempts' = 0
              /\ scrollTop' = "bottom"
              /\ iterations' = 1
              /\ lPc' = "sleep"
  /\ noGrowth' = 0
  /\ UNCHANGED << exportVars, callVars, traceVars, popupVars, watcherVars >>

\* after sleep(800): the recount and the no-change rule, attempts++, the
\* loop test, then either the next scroll or scrollTop = 0 and the return
LoaderIteration ==
  /\ lPc = "sleep"
  /\ \E count \in SidebarCounts :
       LET same == count = currentCount
           nc == IF same THEN noChangeCount + 1 ELSE 0
           stop == same /\ nc >= noChangeLimit
           att == IF stop THEN attempts ELSE attempts + 1
       IN  /\ lastCount' = currentCount
           /\ currentCount' = count
           /\ noChangeCount' = nc
           /\ attempts' = att
           /\ noGrowth' = IF count > currentCount THEN 0
                           ELSE IF noGrowth < noChangeLimit THEN noGrowth + 1
                           ELSE noGrowth
           /\ IF ~stop /\ ScrollOn(att)
                THEN /\ scrollTop' = "bottom"
                     /\ iterations' = iterations + 1
                     /\ lPc' = "sleep"
                ELSE /\ scrollTop' = "top"
                     /\ lPc' = "done"
                     /\ UNCHANGED iterations
  /\ UNCHANGED << exportVars, callVars, traceVars, popupVars, watcherVars, scrollContainer >>

(* ------------------------- auto-sync (Change Watcher) ------------------- *)
\* document.querySelectorAll(SELECTORS.messageGroup).length when it is read
MessageCounts == 0..MaxMsgs

\* observer.disconnect(), for the observer the variable refers to
Disconnect(set, obs) == { sub \in set : sub.obs # obs }

ClearTimeout_Nothing(set, handle) == set

\* clearTimeout(handle)
ClearTimeout(set, handle) == set \ {handle}

\* setupAutoSync(): the old observer is disconnected; without a container in
\* the document it returns; else lastMessageCount is read and a new observer
\* observes the container that is in the document
SetupAutoSync ==
  /\ IF container = NoId
       THEN /\ subs' = Disconnect(subs, observer)
            /\ UNCHANGED << observer, observersMade, lastMessageCount >>
       ELSE /\ observersMade < MaxObservers
            /\ observersMade' = observersMade + 1
            /\ observer' = observersMade + 1
            /\ subs' = Disconnect(subs, observer)
                         \cup {[obs |-> observersMade + 1, target |-> container]}
            /\ \E count \in MessageCounts : lastMessageCount' = count
  /\ settled' = IF settled = "changed" THEN "setup" ELSE settled

\* initialize(): the response to 'getAutoSync'
WatcherInit ==
  /\ wInit = "pending"
  /\ wInit' = "done"
  /\ \E enabled \in BOOLEAN :
       IF enabled
         THEN /\ autoSyncEnabled' = TRUE
              /\ setupTimers' = [setupTimers EXCEPT !.init = @ + 1]
         ELSE UNCHANGED << autoSyncEnabled, setupTimers >>
  /\ UNCHANGED << exportVars, callVars, traceVars, popupVars, loaderVars, observer, observersMade,
                  subs, lastMessageCount, pageUrl, container, pending,
                  autoSyncTimeout, timersSet, bursts, burstOpen, autoExports,
                  settled >>

\* setTimeout(setupAutoSync, 2000) of initialize() fires
InitTimerFires ==
  /\ setupTimers.init > 0
  /\ setupTimers' = [setupTimers EXCEPT !.init = @ - 1]
  /\ SetupAutoSync
  /\ UNCHANGED << exportVars, callVars, traceVars, popupVars, loaderVars, wInit, autoSyncEnabled,
                  pageUrl, container, pending, autoSyncTimeout, timersSet,
                  bursts, burstOpen, autoExports >>

\* the 1 s timer of the URL-change observer fires:
\* if (autoSyncEnabled) setupAutoSync()
UrlTimerFires ==
  /\ setupTimers.url > 0
  /\ setupTimers' = [setupTimers EXCEPT !.url = @ - 1]
  /\ IF autoSyncEnabled
       THEN SetupAutoSync
       ELSE UNCHANGED << observer, observersMade, subs, lastMessageCount,
                         settled >>
  /\ UNCHANGED << exportVars, callVars, traceVars, popupVars, loaderVars, wInit, autoSyncEnabled,
                  pageUrl, container, pending, autoSyncTimeout, timersSet,
                  bursts, burstOpen, autoExports >>

\* the host page shows another conversation: the URL changes, the old
\* container stays for a while, is removed, or is replaced at once; the
\* URL-change observer sets its timer
Navigate ==
  /\ setupTimers.url < MaxSetupTimers
  /\ \E new \in Ids \ {pageUrl} :
       /\ pageUrl' = new
       /\ container' \in {container, NoId, new}
  /\ setupTimers' = [setupTimers EXCEPT !.url = @ + 1]
  /\ settled' = "changed"
  /\ UNCHANGED << exportVars, callVars, traceVars, popupVars, loaderVars, wInit, autoSyncEnabled,
                  observer, observersMade, subs, lastMessageCount, pending,
                  autoSyncTimeout, timersSet, bursts, burstOpen, autoExports >>

\* the host page renders the container of the conversation of the URL
ContainerRenders ==
  /\ container # pageUrl
  /\ container' = pageUrl
  /\ UNCHANGED << exportVars, callVars, traceVars, popupVars, loaderVars, wInit, autoSyncEnabled,
                  observer, observersMade, subs, lastMessageCount, pageUrl,
                  timerVars, bursts, burstOpen, autoExports, settled >>

\* the callback of an observer whose container changed, auto-sync enabled
\* and currentCount > lastMessageCount: the debounce timer is set anew
QualifyingChange ==
  /\ \E sub \in subs : sub.target = container
  /\ autoSyncEnabled
  /\ timersSet < MaxTimers
  /\ \E count \in MessageCounts :
       /\ count > lastMessageCount
       /\ lastMessageCount' = count
  /\ timersSet' = timersSet + 1
  /\ autoSyncTimeout' = timersSet + 1
  /\ pending' = ClearTimeout(pending, autoSyncTimeout) \cup {timersSet + 1}
  /\ bursts' = IF burstOpen THEN bursts ELSE bursts + 1
  /\ burstOpen' = TRUE
  /\ UNCHANGED << exportVars, callVars, traceVars, popupVars, loaderVars, wInit, autoSyncEnabled,
                  observer, observersMade, subs, pageUrl, container,
                  setupTimers, autoExports, settled >>

\* a debounce timer fires 2 s after it was set: exportCurrentConversation()
DebounceFires ==
  /\ \E t \in pending :
       /\ pending' = pending \ {t}
       /\ burstOpen' = IF t = autoSyncTimeout THEN FALSE ELSE burstOpen
  /\ autoExports' = autoExports + 1
  /\ UNCHANGED << exportVars, callVars, traceVars, popupVars, loaderVars, wInit, autoSyncEnabled,
                  observer, observersMade, subs, lastMessageCount, pageUrl,
                  container, autoSyncTimeout, timersSet, setupTimers, bursts,
                  settled >>

\* 'enableAutoSync' message: autoSyncEnabled = true; setupAutoSync()
EnableAutoSync ==
  /\ autoSyncEnabled' = TRUE
  /\ SetupAutoSync
  /\ UNCHANGED << exportVars, callVars, traceVars, popupVars, loaderVars, wInit, pageUrl,
                  container, timerVars, bursts, burstOpen, autoExports >>

\* 'disableAutoSync' message: autoSyncEnabled = false; the observer is
\* disconnected and dropped
DisableAutoSync ==
  /\ autoSyncEnabled' = FALSE
  /\ subs' = Disconnect(subs, observer)
  /\ observer' = 0
  /\ UNCHANGED << exportVars, callVars, traceVars, popupVars, loaderVars, wInit, observersMade,
                  lastMessageCount, pageUrl, container, timerVars, bursts,
                  burstOpen, autoExports, settled >>

(* --------------------------- MarkdownConverter -------------------------- *)
\* A string is a sequence of tokens: the white-space characters " " and
\* "\n", and pieces of text without white space at either end.
WhiteSpace == {" ", "\n"}

\* String.prototype.trim()
RECURSIVE TrimStart(_)
TrimStart(t) ==
  IF t # << >> /\ Head(t) \in WhiteSpace THEN TrimStart(Tail(t)) ELSE t

RECURSIVE TrimEnd(_)
TrimEnd(t) ==
  IF t # << >> /\ t[Len(t)] \in WhiteSpace
    THEN TrimEnd(SubSeq(t, 1, Len(t) - 1)) ELSE t

Trim_StartOnly(t) == TrimStart(t)

Trim(t) == TrimEnd(TrimStart(t))

\* Array.prototype.join(sep)
RECURSIVE Join(_, _)
Join(ls, sep) ==
  IF ls = << >> THEN << >>
  ELSE IF Len(ls) = 1 THEN ls[1]
  ELSE ls[1] \o << sep >> \o Join(Tail(ls), sep)

\* formatConversation: the lines pushed for the messages
RECURSIVE MessageLines(_)
MessageLines(ms) ==
  IF ms = << >> THEN << >>
  ELSE << << "##", " ", IF ms[1].role = "user" THEN "User" ELSE "Assistant" >>,
          << >>,
          ms[1].content,
          << >>,
          << "---" >>,
          << >> >> \o MessageLines(Tail(ms))

\* formatConversation(conversation); an absent title, date or url is << >>
formatConversation(conversation) ==
  LET title == IF conversation.title # << >> THEN conversation.title
               ELSE << "Untitled Conversation" >>
      lines ==
        << << "#", " " >> \o title, << >> >>
        \o (IF conversation.date # << >>
              THEN << << "**Date**:", " " >> \o conversation.date >>
              ELSE << >>)
        \o (IF conversation.url # << >>
              THEN << << "**URL**:", " " >> \o conversation.url >>
              ELSE << >>)
        \o << << >>, << "---" >>, << >> >>
        \o MessageLines(conversation.messages)
  IN  Trim(Join(lines, "\n")) \o << "\n" >>

\* the message records of the inputs of formatConversation
FormatMessages ==
  [role : {"user", "assistant"}, content : {<< "Hi" >>, << "Hello" >>}]

FormatInputs ==
  [title : {<< >>, << "Greeting" >>},
   date : {<< >>, << "2024-05-01" >>},
   url : {<< >>, << "https://chatgpt.com/c/1" >>},
   messages : SeqsUpTo(FormatMessages, MaxMessages)]

\* a call of MarkdownConverter.formatConversation returns
FormatConversation ==
  /\ ~returned
  /\ ret' = formatConversation(arg)
  /\ returned' = TRUE
  /\ UNCHANGED << exportVars, popupVars, loaderVars, watcherVars, arg,
                  traceVars >>

(* sanitizeFilename: here a string is the sequence of its characters *)
\* /[<>:"/\\|?*]/
InvalidChars == {"<", ">", ":", "\"", "/", "\\", "|", "?", "*"}

RemoveInvalid_ToBlank(t) ==
  [n \in DOMAIN t |-> IF t[n] \in InvalidChars THEN " " ELSE t[n]]

\* .replace(/[<>:"/\\|?*]/g, '')
RemoveInvalid(t) == SelectSeq(t, LAMBDA c : c \notin InvalidChars)

\* .replace(/\s+/g, '_'): the first character of every run of white space
\* becomes "_", the others of the run go
SpacesToUnderscore(t) ==
  LET marked == [n \in DOMAIN t |->
                   IF t[n] \notin WhiteSpace THEN t[n]
                   ELSE IF n > 1 /\ t[n - 1] \in WhiteSpace THEN ""
                   ELSE "_"]
  IN  SelectSeq(marked, LAMBDA c : c # "")

\* .replace(/_+/g, '_'): of every run of underscores the first stays
CollapseUnderscores(t) ==
  LET marked == [n \in DOMAIN t |->
                   IF t[n] = "_" /\ n > 1 /\ t[n - 1] = "_" THEN "" ELSE t[n]]
  IN  SelectSeq(marked, LAMBDA c : c # "")

\* .replace(/^_|_$/g, '')
TrimUnderscores(t) ==
  LET a == IF t # << >> /\ Head(t) = "_" THEN Tail(t) ELSE t
  IN  IF a # << >> /\ a[Len(a)] = "_" THEN SubSeq(a, 1, Len(a) - 1) ELSE a

\* .substring(0, 100)
Substring(t, n) == SubSeq(t, 1, IF Len(t) < n THEN Len(t) ELSE n)

Untitled == << "u", "n", "t", "i", "t", "l", "e", "d" >>

\* sanitizeFilename(title)
sanitizeFilename(title) ==
  IF title = << >> THEN Untitled
  ELSE LET out == Substring(TrimUnderscores(CollapseUnderscores(
                    SpacesToUnderscore(RemoveInvalid(title)))), filenameLimit)
       IN  IF out = << >> THEN Untitled ELSE out

\* "Hello: World/Test"
HelloWorldTest ==
  << "H", "e", "l", "l", "o", ":", " ", "W", "o", "r", "l", "d", "/",
     "T", "e", "s", "t" >>

\* the titles: every string of up to MaxTitleLen characters out of a letter,
\* a blank, an underscore and two invalid characters; the title of the
\* spec's example; a title of 200 letters
TitleInputs ==
  SeqsUpTo({"a", " ", "_", ":", "/"}, MaxTitleLen)
    \cup {HelloWorldTest, [n \in 1..longTitleLen |-> "a"]}

\* a call of MarkdownConverter.sanitizeFilename returns
SanitizeFilename ==
  /\ ~returned
  /\ ret' = sanitizeFilename(arg)
  /\ returned' = TRUE
  /\ UNCHANGED << exportVars, popupVars, loaderVars, watcherVars, arg,
                  traceVars >>

(* ------------------------ htmlToMarkdown (fragments) -------------------- *)
\* A fragment tree: a text node has tag "#text" and a text, an element has
\* a tag and its child nodes in document order.  The output is a sequence
\* of tokens as in formatConversation.
\* the tokens of a single backtick and of a fence marker of three backticks
Tick == "BACKTICK"

Fence == "FENCE"

TextNode(t) == [tag |-> "#text", text |-> t, kids |-> << >>]

Element(tag, kids) == [tag |-> tag, text |-> "", kids |-> kids]

\* node.textContent
RECURSIVE textContent(_)
RECURSIVE TextOfNodes(_)
textContent(node) ==
  IF node.tag = "#text" THEN << node.text >> ELSE TextOfNodes(node.kids)

TextOfNodes(nodes) ==
  IF nodes = << >> THEN << >>
  ELSE textContent(nodes[1]) \o TextOfNodes(Tail(nodes))

\* the descendants of the nodes, in document order
RECURSIVE Descendants(_)
Descendants(nodes) ==
  IF nodes = << >> THEN << >>
  ELSE << nodes[1] >> \o Descendants(nodes[1].kids)
       \o Descendants(Tail(nodes))

querySelectorCode_Last(node) ==
  LET codes == SelectSeq(Descendants(node.kids), LAMBDA d : d.tag = "code")
  IN  IF codes = << >> THEN << >> ELSE << codes[Len(codes)] >>

\* node.querySelector('code'): the first descendant code element, if any
querySelectorCode(node) ==
  LET codes == SelectSeq(Descendants(node.kids), LAMBDA d : d.tag = "code")
  IN  IF codes = << >> THEN << >> ELSE << codes[1] >>

\* processNode(node); parentTag is node.parentElement.tagName.  The
\* elements of these fragments carry no class, so detectLanguage(node) is
\* the empty string.
RECURSIVE processNode(_, _)
RECURSIVE ProcessNodes(_, _)
RECURSIVE ProcessItems(_)
RECURSIVE processTable(_)
processNode(node, parentTag) ==
  IF node.tag = "#text" THEN << node.text >>
  ELSE
    LET children == ProcessNodes(node.kids, node.tag)
        codeElement == querySelectorCode(node)
        codeContent == IF codeElement # << >> THEN textContent(codeElement[1])
                       ELSE textContent(node)
    IN  CASE node.tag = "code" ->
               IF parentTag = "pre" THEN children
               ELSE << Tick >> \o children \o << Tick >>
          [] node.tag = "pre" ->
               << "\n", Fence, "\n" >> \o codeContent
               \o << "\n", Fence, "\n", "\n" >>
          [] node.tag = "ul" ->
               Join(ProcessItems(SelectSeq(node.kids,
                                           LAMBDA c : c.tag = "li")), "\n")
               \o << "\n" >>
          [] node.tag = "br" -> << "\n" >>
          [] node.tag = "table" -> processTable(node) \o << "\n", "\n" >>
          [] OTHER -> children

\* Array.from(node.childNodes).map(child => this.processNode(child)).join('')
ProcessNodes(nodes, parentTag) ==
  IF nodes = << >> THEN << >>
  ELSE processNode(nodes[1], parentTag) \o ProcessNodes(Tail(nodes), parentTag)

\* processList(listElement, false): the lines of the items
ProcessItems(items) ==
  IF items = << >> THEN << >>
  ELSE << << "-", " " >> \o Trim(processNode(items[1], "ul")) >>
       \o ProcessItems(Tail(items))

\* Array.prototype.join(sep) with a separator of several tokens
RECURSIVE JoinSeq(_, _)
JoinSeq(ls, sep) ==
  IF ls = << >> THEN << >>
  ELSE IF Len(ls) = 1 THEN ls[1]
  ELSE ls[1] \o sep \o JoinSeq(Tail(ls), sep)

\* .replace(/\|/g, '\\|')
RECURSIVE EscapePipes(_)
EscapePipes(t) ==
  IF t = << >> THEN << >>
  ELSE (IF Head(t) = "|" THEN << "\\", "|" >> ELSE << Head(t) >>)
       \o EscapePipes(Tail(t))

\* element.querySelectorAll(tags): the descendants with one of the tags
querySelectorAll(element, tags) ==
  SelectSeq(Descendants(element.kids), LAMBDA d : d.tag \in tags)

\* processTable: the lines pushed for the rows from rowIndex on
RECURSIVE TableLines(_, _)
TableLines(rows, rowIndex) ==
  IF rows = << >> THEN << >>
  ELSE
    LET cells == querySelectorAll(rows[1], {"th", "td"})
        cellContents ==
          [n \in DOMAIN cells |->
             EscapePipes(Trim(processNode(cells[n], "tr")))]
        line == << "|", " " >> \o JoinSeq(cellContents, << " ", "|", " " >>)
                \o << " ", "|" >>
        separator ==
          << "|", " " >>
          \o JoinSeq([n \in DOMAIN cells |-> << "---" >>], << " ", "|", " " >>)
          \o << " ", "|" >>
    IN  << line >> \o (IF rowIndex = 0 THEN << separator >> ELSE << >>)
        \o TableLines(Tail(rows), rowIndex + 1)

processTable(tableElement) ==
  LET rows == querySelectorAll(tableElement, {"tr"})
  IN  IF rows = << >> THEN << >> ELSE Join(TableLines(rows, 0), "\n")

\* htmlToMarkdown(element); the parent of the fragment's root is not a pre
htmlToMarkdown(element) == Trim(processNode(element, "div"))

\* the fragments of the calls of htmlToMarkdown
Tags == {"code", "pre", "ul", "li"}

Leaves == {TextNode("a"), TextNode("b")}

SmallNodes ==
  Leaves \cup {Element(tag, kids) : tag \in Tags, kids \in SeqsUpTo(Leaves, 1)}

MiddleNodes ==
  {Element(tag, kids) : tag \in Tags, kids \in SeqsUpTo(SmallNodes, MaxKids)}

Fragments ==
  MiddleNodes
  \cup {Element(tag, << kid >>) : tag \in Tags, kid \in MiddleNodes}

\* the tables of the calls of processTable: a cell holds a text, a pipe, or
\* two texts with a line break between them
CellKids ==
  { << TextNode("a") >>, << TextNode("|") >>,
    << TextNode("a"), Element("br", << >>), TextNode("b") >> }

TableCells == {Element("td", kids) : kids \in CellKids}

TableRows == {Element("tr", cells) : cells \in SeqsUpTo(TableCells, MaxKids)}

Tables == {Element("table", rows) : rows \in SeqsUpTo(TableRows, MaxKids)}

\* a call of MarkdownConverter.processTable returns
ProcessTable ==
  /\ ~returned
  /\ ret' = processTable(arg)
  /\ returned' = TRUE
  /\ UNCHANGED << exportVars, popupVars, loaderVars, watcherVars, arg,
                  traceVars >>

\* a call of MarkdownConverter.htmlToMarkdown returns
HtmlToMarkdown ==
  /\ ~returned
  /\ ret' = htmlToMarkdown(arg)
  /\ returned' = TRUE
  /\ UNCHANGED << exportVars, popupVars, loaderVars, watcherVars, arg,
                  traceVars >>

(* ------------------------- getConversationTitle ------------------------- *)
\* Here a string is the sequence of its characters.  The document is
\*   currentId : the id in the page URL (getConversationIdFromUrl), or NoId
\*   nav       : the links a[href^="/c/"] of the sidebar in document order,
\*               each with the id of its href, its text, its own class
\*               ("secondary" is bg-token-sidebar-surface-secondary, "bg"
\*               another class with "bg-") and whether its li has a "bg-"
\*               class
\*   header    : the text of [data-testid="conversation-title"], of main h1
\*               and of header h1, each present or not
\*   user      : the text of the first element with
\*               data-message-author-role="user", present or not
Digits == {"0", "1", "2", "3", "4", "5", "6", "7", "8", "9"}

ToLower(c) ==
  CASE c = "C" -> "c" [] c = "G" -> "g" [] c = "P" -> "p" [] c = "T" -> "t"
    [] c = "N" -> "n" [] c = "M" -> "m" [] c = "O" -> "o" [] OTHER -> c

\* /^p/i
StartsWithI(t, p) ==
  /\ Len(t) >= Len(p)
  /\ \A n \in DOMAIN p : ToLower(t[n]) = p[n]

\* /^p$/i
EqualsI(t, p) == Len(t) = Len(p) /\ StartsWithI(t, p)

\* invalidTitlePatterns.some(pattern => pattern.test(title))
MatchesInvalidPattern(t) ==
  \/ EqualsI(t, << "c", "h", "a", "t", "g", "p", "t" >>)
  \/ EqualsI(t, << "n", "e", "w", " ", "c", "h", "a", "t" >>)
  \/ /\ StartsWithI(t, << "g", "p", "t" >>)
     /\ \/ Len(t) >= 4 /\ t[4] \in Digits
        \/ Len(t) >= 5 /\ t[4] = "-" /\ t[5] \in Digits
  \/ /\ t # << >>
     /\ t[1] \in Digits
     /\ \A n \in DOMAIN t : t[n] \in Digits \cup {"."}
     /\ Cardinality({n \in DOMAIN t : t[n] = "."}) <= 1
  \/ StartsWithI(t, << "o" >>) /\ Len(t) >= 2 /\ t[2] \in Digits
  \/ StartsWithI(t, << "c", "l", "a", "u", "d", "e" >>)
  \/ EqualsI(t, << "m", "o", "d", "e", "l" >>)

isValidTitle_LengthOnly(title) == ~(title = << >> \/ Len(title) < 2)

isValidTitle(title) ==
  IF title = << >> \/ Len(title) < 2 THEN FALSE
  ELSE ~MatchesInvalidPattern(title)

\* document.querySelector: the first of the elements found, if any
FirstLink(found) == IF found = << >> THEN << >> ELSE << found[1] >>

\* the results of the three sidebarSelectors, in their order
ActiveLinks(nav) ==
  FirstLink(SelectSeq(nav, LAMBDA a : a.cls = "secondary"))
  \o FirstLink(SelectSeq(nav, LAMBDA a : a.cls # "none"))
  \o FirstLink(SelectSeq(nav, LAMBDA a : a.li))

\* Priority 1: the titles of the active links that pass both tests
ActiveTitles(doc) ==
  LET matches(a) == /\ doc.currentId # NoId
                    /\ a.href = doc.currentId
                    /\ isValidTitle(Trim(a.text))
      kept == SelectSeq(ActiveLinks(doc.nav), matches)
  IN  [n \in DOMAIN kept |-> Trim(kept[n].text)]

\* Priority 2: nav a[href="/c/${currentId}"]
MatchingTitles(doc) ==
  LET link == FirstLink(SelectSeq(doc.nav,
                                  LAMBDA a : a.href = doc.currentId))
  IN  IF doc.currentId # NoId /\ link # << >>
         /\ isValidTitle(Trim(link[1].text))
        THEN << Trim(link[1].text) >> ELSE << >>

\* Priority 3: the three headerSelectors
HeaderTitles(doc) ==
  LET kept == SelectSeq(doc.header,
                LAMBDA h : h.present /\ isValidTitle(Trim(h.text)))
  IN  [n \in DOMAIN kept |-> Trim(kept[n].text)]

\* content.substring(0, 50).replace(/\n/g, ' ') + (content.length > 50 ? '...' : '')
MessageTitle(content) ==
  LET cut == SubSeq(content, 1, IF Len(content) < titleLimit THEN Len(content)
                                ELSE titleLimit)
  IN  [n \in DOMAIN cut |-> IF cut[n] = "\n" THEN " " ELSE cut[n]]
      \o (IF Len(content) > titleLimit THEN << ".", ".", "." >> ELSE << >>)

\* Priority 4: the first user message
UserTitles(doc) ==
  IF doc.user.present /\ Trim(doc.user.text) # << >>
    THEN << MessageTitle(Trim(doc.user.text)) >> ELSE << >>

\* 'Untitled Conversation'
UntitledConversation ==
  << "U", "n", "t", "i", "t", "l", "e", "d", " ", "C", "o", "n", "v", "e", "r", "s", "a", "t", "i", "o", "n" >>

getConversationTitle(doc) ==
  Head(ActiveTitles(doc) \o MatchingTitles(doc) \o HeaderTitles(doc)
       \o UserTitles(doc) \o << UntitledConversation >>)

\* the documents of the calls of getConversationTitle
NavLinks ==
  [href : Ids, text : {<< "o", "3" >>, << " ", "P", "l", "a", "n", " " >>}, cls : {"none", "secondary", "bg"},
   li : BOOLEAN]

Absent == [present |-> FALSE, text |-> << >>]

Present(texts) == [present : {TRUE}, text : texts]

HeaderTexts ==
  { << a, b, c >> : a \in {Absent} \cup Present({<< "C", "h", "a", "t", "G", "P", "T" >>, << "H", "e", "a", "d" >>}),
                    b \in {Absent} \cup Present({<< "x" >>}),
                    c \in {Absent} \cup Present({<< "G", "P", "T", "-", "4" >>, << "T", "o", "p" >>}) }

UserTexts ==
  {Absent} \cup Present({<< " " >>, << "4" >>, << "N", "e", "w", " ", "c", "h", "a", "t" >>, << "a", "\n", "b" >>,
     [n \in 1..longMessageLen |-> "a"]})

TitleDocs ==
  [currentId : Ids \cup {NoId}, nav : SeqsUpTo(NavLinks, MaxLinks),
   header : {<< Absent, Absent, Absent >>}, user : {Absent, [present |-> TRUE, text |-> << "4" >>]}]
  \cup
  [currentId : {1}, nav : {<< >>}, header : HeaderTexts, user : UserTexts]

\* a call of getConversationTitle returns
GetConversationTitle ==
  /\ ~returned
  /\ ret' = getConversationTitle(arg)
  /\ returned' = TRUE
  /\ UNCHANGED << exportVars, popupVars, loaderVars, watcherVars, arg,
                  traceVars >>

(* ----------------------------- detectLanguage --------------------------- *)
\* Here a string is the sequence of its characters.  The pre element is
\*   code      : the classList of preElement.querySelector('code'), if any
\*   label     : the text of
\*               preElement.closest('.bg-black')?.querySelector('.text-xs'),
\*               if there is such an element
\*   ancestors : the class attributes of the pre and of its ancestors,
\*               nearest first
\* t.indexOf(p) + 1: the first position of p in t, 0 if there is none
IndexOf(t, p) ==
  LET at == {n \in 1..(Len(t) - Len(p) + 1) : SubSeq(t, n, n + Len(p) - 1) = p}
  IN  IF at = {} THEN 0 ELSE CHOOSE n \in at : \A m \in at : n <= m

\* cls.startsWith(p)
StartsWith(t, p) == Len(t) >= Len(p) /\ SubSeq(t, 1, Len(p)) = p

ReplaceFirst_Nothing(t, p) == t

\* t.replace(p, '')
ReplaceFirst(t, p) ==
  LET n == IndexOf(t, p)
  IN  IF n = 0 THEN t ELSE SubSeq(t, 1, n - 1) \o SubSeq(t, n + Len(p), Len(t))

LanguagePrefix == << "l", "a", "n", "g", "u", "a", "g", "e", "-" >>

LangPrefix == << "l", "a", "n", "g", "-" >>

\* \w
WordChars ==
  Digits
  \cup {"_", "a", "b", "c", "d", "e", "f", "g", "h", "i", "j", "k", "l", "m",
        "n", "o", "p", "q", "r", "s", "t", "u", "v", "w", "x", "y", "z"}

\* className.match(/language-(\w+)/): << match[1] >>, or << >> for null
MatchLanguage(className) ==
  LET at == {n \in 1..(Len(className) - Len(LanguagePrefix)) :
               /\ SubSeq(className, n, n + Len(LanguagePrefix) - 1)
                    = LanguagePrefix
               /\ className[n + Len(LanguagePrefix)] \in WordChars}
  IN  IF at = {} THEN << >>
      ELSE LET n == CHOOSE k \in at : \A m \in at : k <= m
               from == n + Len(LanguagePrefix)
               to == CHOOSE k \in from..Len(className) :
                       /\ \A m \in from..k : className[m] \in WordChars
                       /\ k = Len(className) \/ className[k + 1] \notin WordChars
           IN  << SubSeq(className, from, to) >>

\* the first class of the code element that has one of the two prefixes
PrefixedClasses(classes) ==
  SelectSeq(classes, LAMBDA cls : StartsWith(cls, LanguagePrefix)
                                  \/ StartsWith(cls, LangPrefix))

\* preElement.closest('[class*="language-"]')
ClosestLanguage(ancestors) ==
  SelectSeq(ancestors, LAMBDA className : IndexOf(className, LanguagePrefix) # 0)

\* .toLowerCase()
ToLowerCase(t) == [n \in DOMAIN t |-> ToLower(t[n])]

detectLanguage(preElement) ==
  LET prefixed == IF preElement.code.present
                    THEN PrefixedClasses(preElement.code.classes) ELSE << >>
      parent == ClosestLanguage(preElement.ancestors)
  IN  IF prefixed # << >>
        THEN IF StartsWith(prefixed[1], LanguagePrefix)
               THEN ReplaceFirst(prefixed[1], LanguagePrefix)
               ELSE ReplaceFirst(prefixed[1], LangPrefix)
      ELSE IF preElement.label.present
        THEN ToLowerCase(Trim(preElement.label.text))
      ELSE IF parent # << >> /\ MatchLanguage(parent[1]) # << >>
        THEN MatchLanguage(parent[1])[1]
      ELSE << >>

\* the pre elements of the calls of detectLanguage
CodeClasses == {<< "l", "a", "n", "g", "u", "a", "g", "e", "-", "j", "s" >>, << "l", "a", "n", "g", "-", "p", "y" >>, << "l", "a", "n", "g", "u", "a", "g", "e", "-" >>, << "h", "l", "j", "s" >>}

CodeElements ==
  {[present |-> FALSE, classes |-> << >>]}
  \cup [present : {TRUE}, classes : SeqsUpTo(CodeClasses, MaxClasses)]

AncestorClasses == {<< "p", "r", "o", "s", "e" >>, << "m", "y", " ", "l", "a", "n", "g", "u", "a", "g", "e", "-" >>, << "x", " ", "l", "a", "n", "g", "u", "a", "g", "e", "-", "g", "o", " ", "y" >>}

PreElements ==
  [code : CodeElements,
   label : {Absent} \cup Present({<< " ", "G", "O", " " >>, << " " >>}),
   ancestors : SeqsUpTo(AncestorClasses, MaxClasses)]

\* a call of MarkdownConverter.detectLanguage returns
DetectLanguage ==
  /\ ~returned
  /\ ret' = detectLanguage(arg)
  /\ returned' = TRUE
  /\ UNCHANGED << exportVars, popupVars, loaderVars, watcherVars, arg,
                  traceVars >>

(* ----------------------- extractCurrentConversation --------------------- *)
\* The page is the id of the conversation in its URL and the elements
\* with a data-message-author-role attribute in document order, each with
\* the value of the attribute and its content element
\* (.markdown, .whitespace-pre-wrap), a fragment, if it has one.
AcceptedRole_Any(role) == role # ""

\* !(!role || (role !== 'user' && role !== 'assistant'))
AcceptedRole(role) == ~(role = "" \/ (role # "user" /\ role # "assistant"))

\* messageGroups.forEach: the messages pushed for the groups
RECURSIVE ExtractMessages(_)
ExtractMessages(groups) ==
  IF groups = << >> THEN << >>
  ELSE
    LET group == groups[1]
        markdownContent == htmlToMarkdown(group.content[1])
    IN  (IF ~AcceptedRole(group.role) THEN << >>
         ELSE IF group.content = << >> THEN << >>
         ELSE IF Trim(markdownContent) # << >>
           THEN << [role |-> group.role, content |-> markdownContent] >>
           ELSE << >>)
        \o ExtractMessages(Tail(groups))

\* document.querySelector('[data-message-author-role="user"]') as
\* getConversationTitle reads it; the page has no sidebar and no header
TitleDocument(page) ==
  LET users == SelectSeq(page.groups, LAMBDA g : g.role = "user")
  IN  [currentId |-> page.id, nav |-> << >>,
       header |-> << Absent, Absent, Absent >>,
       user |-> IF users = << >> THEN Absent
                ELSE [present |-> TRUE,
                      text |-> TextOfNodes(users[1].content)]]

\* extractCurrentConversation(): << >> for null, else << the record >>
extractCurrentConversation(page) ==
  LET messages == ExtractMessages(page.groups)
  IN  IF page.groups = << >> THEN << >>
      ELSE IF messages = << >> THEN << >>
      ELSE << [id |-> page.id,
               title |-> getConversationTitle(TitleDocument(page)),
               url |-> page.id,
               messages |-> messages] >>

\* the pages of the calls of extractCurrentConversation
ContentElements ==
  {Element("div", kids) : kids \in {<< >>, << TextNode(" ") >>,
                                    << TextNode("a") >>}}

MessageGroups ==
  [role : {"user", "assistant", "tool", ""},
   content : {<< >>} \cup {<< c >> : c \in ContentElements}]

Pages == [id : Ids \cup {NoId}, groups : SeqsUpTo(MessageGroups, MaxMsgs)]

\* a call of extractCurrentConversation returns
ExtractCurrentConversation ==
  /\ ~returned
  /\ ret' = extractCurrentConversation(arg)
  /\ returned' = TRUE
  /\ UNCHANGED << exportVars, popupVars, loaderVars, watcherVars, arg,
                  traceVars >>

(* --------------------------------- popup -------------------------------- *)
\* ids whose export is under way: requested, or being marked
InFlight ==
  { reqId[r] : r \in Requesters }
    \cup (IF pc \in {"await", "markGet", "markSet", "markDone"}
            THEN {Cur} ELSE {})
    \cup {sId}

\* handleClearTracking: chrome.storage.local.set({exportedConversations: []})
PopupClearTracking ==
  /\ storage' = {}
  /\ clearInRun' = (pc # "idle")
  /\ sinceClear' = InFlight \ {NoId}
  /\ downloaded' = {}
  /\ UNCHANGED << swVars, reqState, reqId, links, sideVars, batchVars,
                  singleVars >>

\* the toolbar button is clicked: a new popup document, its buttons enabled
\* (loadState disables them only outside chatgpt.com)
PopupOpens ==
  /\ ~popupOpen
  /\ popupOpen' = TRUE
  /\ popupAwaits' = "none"
  /\ UNCHANGED << exportVars, callVars, traceVars, extraRuns, loaderVars, watcherVars >>

\* the popup loses focus: its document, its handlers and the response they
\* await are gone; the content script goes on
PopupCloses ==
  /\ popupOpen
  /\ popupOpen' = FALSE
  /\ popupAwaits' = "none"
  /\ UNCHANGED << exportVars, callVars, traceVars, extraRuns, loaderVars, watcherVars >>

\* handleExportAll: both buttons disabled, 'exportAll' sent; the content
\* script's listener calls exportAllConversations whatever else is running
PopupExportAll ==
  /\ popupOpen
  /\ popupAwaits = "none"
  /\ \/ /\ pc = "idle"
        /\ pc' = "loading"
        /\ storeAtStart' = storage
        /\ clearInRun' = FALSE
        /\ popupAwaits' = "first"
        /\ UNCHANGED extraRuns
     \/ /\ pc # "idle"
        /\ extraRuns < MaxExtraRuns
        /\ extraRuns' = extraRuns + 1
        /\ popupAwaits' = "extra"
        /\ UNCHANGED << pc, storeAtStart, clearInRun >>
  /\ UNCHANGED << storage, swVars, reqState, reqId, links, i,
                  results, exportedSet, markRead, singleVars, item,
                  storeAtRead, downloaded, sinceClear, popupOpen,
                  loaderVars, watcherVars, callVars, traceVars >>

\* a further run returns; the popup that awaits it enables its buttons
ExtraRunReturns ==
  /\ extraRuns > 0
  /\ extraRuns' = extraRuns - 1
  /\ popupAwaits' = IF popupAwaits = "extra" THEN "none" ELSE popupAwaits
  /\ UNCHANGED << exportVars, callVars, traceVars, popupOpen, loaderVars, watcherVars >>

\* handleExportAll after the await: finally { ...disabled = false }
PopupOnResult ==
  /\ popupAwaits = "first"
  /\ pc \in {"done", "aborted"}
  /\ popupAwaits' = "none"
  /\ UNCHANGED << exportVars, callVars, traceVars, popupOpen, extraRuns, loaderVars, watcherVars >>

(* ------------------------------ specification --------------------------- *)
\* the steps of a run after its start
BatchSteps ==
  \/ BatchLoaded
  \/ BatchReadStore
  \/ BatchCheck
  \/ BatchPollLoaded
  \/ BatchTimeout
  \/ BatchExtract
  \/ BatchOnResponse
  \/ BatchMarkGet
  \/ BatchMarkSet
  \/ BatchMarkDone
  \/ BatchDelay

BatchRun ==
  \/ StartBatch
  \/ BatchSteps

\* the batch run with the service worker that serves it and the popup's
\* Clear tracking
NextBatch ==
  \/ BatchRun
  \/ SWInitRead
  \/ SWInitAssign
  \/ DownloadFile("batch")
  \/ NoResponse("batch")
  \/ PopupClearTracking

SpecBatch == Init /\ [][NextBatch]_vars

\* the batch run interleaved with single-item exports (Export Current, the
\* auto-sync timer) and with restarts of the service worker; no Clear
NextSync ==
  \/ BatchRun
  \/ ExportCurrent
  \/ SingleOnResponse
  \/ SingleMarkGet
  \/ SingleMarkSet
  \/ SWInitRead
  \/ SWInitAssign
  \/ SWRestart
  \/ \E r \in Requesters : DownloadFile(r)
  \/ \E r \in Requesters : NoResponse(r)

SpecSync == Init /\ [][NextSync]_vars

\* the batch run and the service worker's answers, with every timer of the
\* run firing, every storage call of the run answered (the steps of the
\* run), and every 'download' message answered or its port closed
NextRun ==
  \/ BatchRun
  \/ DownloadFile("batch")
  \/ NoResponse("batch")

SpecRunFair ==
  /\ Init
  /\ [][NextRun]_vars
  /\ WF_vars(BatchRun)
  /\ WF_vars(DownloadFile("batch") \/ NoResponse("batch"))

\* the batch run and the service worker's answers, with the source of
\* every extracted document recorded
NextRunFrom ==
  \/ StartBatch
  \/ BatchLoaded
  \/ BatchReadStore
  \/ BatchCheck
  \/ BatchPollLoaded
  \/ BatchTimeout
  \/ BatchExtractFrom
  \/ BatchOnResponse
  \/ BatchMarkGet
  \/ BatchMarkSet
  \/ BatchMarkDone
  \/ BatchDelay
  \/ DownloadFile("batch")
  \/ NoResponse("batch")

SpecRunFrom == Init /\ [][NextRunFrom]_vars

\* the batch run and the service worker's answers, with the progress
\* events of the run recorded
NextRunProgress ==
  \/ StartBatchProgress
  \/ BatchLoaded
  \/ BatchReadStore
  \/ BatchCheckProgress
  \/ BatchPollLoaded
  \/ BatchTimeout
  \/ BatchExtractProgress
  \/ BatchOnResponse
  \/ BatchMarkGet
  \/ BatchMarkSet
  \/ BatchMarkDone
  \/ BatchDelay
  \/ DownloadFile("batch")
  \/ NoResponse("batch")

SpecRunProgress == Init /\ [][NextRunProgress]_vars

\* the batch run and the popup that starts it, closes and opens again
NextPopup ==
  \/ PopupOpens
  \/ PopupCloses
  \/ PopupExportAll
  \/ PopupOnResult
  \/ ExtraRunReturns
  \/ BatchSteps
  \/ DownloadFile("batch")
  \/ NoResponse("batch")

SpecPopup == Init /\ [][NextPopup]_vars

\* the list loader; the timer of its sleep(800) fires
NextLoader ==
  \/ LoaderStart
  \/ LoaderIteration

SpecLoader == InitPage /\ [][NextLoader]_vars /\ WF_vars(LoaderIteration)

\* auto-sync: the watcher, its timers, the host page and the popup's toggle
NextWatcher ==
  \/ WatcherInit
  \/ InitTimerFires
  \/ UrlTimerFires
  \/ Navigate
  \/ ContainerRenders
  \/ QualifyingChange
  \/ DebounceFires
  \/ EnableAutoSync
  \/ DisableAutoSync

SpecWatcher == InitPage /\ [][NextWatcher]_vars

SpecFormat == InitCall(FormatInputs) /\ [][FormatConversation]_vars

SpecSanitize == InitCall(TitleInputs) /\ [][SanitizeFilename]_vars

SpecTitle == InitCall(TitleDocs) /\ [][GetConversationTitle]_vars

SpecFragment == InitCall(Fragments) /\ [][HtmlToMarkdown]_vars

SpecTable == InitCall(Tables) /\ [][ProcessTable]_vars

SpecLanguage == InitCall(PreElements) /\ [][DetectLanguage]_vars

SpecExtract == InitCall(Pages) /\ [][ExtractCurrentConversation]_vars

(* -------------------------------- claims -------------------------------- *)
Candidates == DOMAIN item

Tally == results.exported + results.skipped + results.failed

WithOutcome(o) == { k \in Candidates : item[k].outcome = o }

\* the run has left candidate k behind: it is at a later candidate or done
Passed(k) == pc \in {"check", "wait", "settle", "await", "markGet", "markSet",
                     "markDone", "delay", "done"} /\ i > k

\* C1: a candidate whose download request the Download Sink answered with
\* {success:false, error} ends counted in failed, not in exported.
C1_SinkFailureCountsFailed ==
  \A k \in Candidates :
    (item[k].sink \in {"dlFail", "saveFail"} /\ item[k].outcome # "none")
      => item[k].outcome = "failed"

\* C2: the decision of a candidate's Checking step (skip or go on) equals the
\* membership of its id in the persisted tracking set at that moment.
C2_CheckReadsFreshStore ==
  [][ (pc = "check" /\ item' # item)
        => ((item'[i].outcome = "skipped") <=> (links[i] \in storage)) ]_vars

\* C3, as stated: a candidate whose id is in the persisted tracking set when
\* the run starts is skipped, counted once in skipped, and neither clicked,
\* extracted nor submitted.
C3_SkippedIfTrackedAtStart ==
  \A k \in Candidates :
    (links[k] \in storeAtStart /\ Passed(k))
      => item[k] = [NoItem EXCEPT !.outcome = "skipped"]

\* C3, amended: a candidate whose id is in the persisted tracking set when
\* the run reads it (after the list loader, line 374) is skipped, counted
\* once in skipped, and neither clicked, extracted nor submitted.
C3_SkippedIfTrackedAtRead ==
  /\ \A k \in Candidates :
       /\ (links[k] \in storeAtRead /\ Passed(k))
            => item[k] = [NoItem EXCEPT !.outcome = "skipped"]
       /\ (links[k] \in storeAtRead /\ pc # "idle")
            => (item[k].reached = "none" /\ item[k].sink = "none")
  /\ results.skipped = Cardinality(WithOutcome("skipped"))

C3_Witness ==
  /\ pc = "done"
  /\ \E k \in Candidates :
       /\ links[k] \in storeAtRead
       /\ item[k].outcome = "skipped"
  /\ \E k \in Candidates : item[k].outcome = "exported"

\* C4: every candidate adds one to exactly one of exported, skipped and
\* failed: after k candidates the three add up to k, and at the return to
\* total, the number of candidate links.
C4_TallyCountsEachCandidateOnce ==
  /\ results.exported = Cardinality(WithOutcome("exported"))
  /\ results.skipped = Cardinality(WithOutcome("skipped"))
  /\ results.failed = Cardinality(WithOutcome("failed"))
  /\ pc \in {"check", "wait", "settle", "await", "markGet", "markSet",
             "markDone"} => Tally = i - 1
  /\ pc = "delay" => Tally = i
  /\ pc = "done" => /\ Tally = results.total
                    /\ results.total = Len(links)
                    /\ Len(links) >= 1

C4_Witness ==
  /\ pc = "done"
  /\ Len(links) >= 2
  /\ results.exported >= 1
  /\ results.failed >= 1

\* C5: without a clear, no write to the persisted tracking set removes an id
\* that is in it.
C5_NoIdLost == [][storage \subseteq storage']_vars

\* C6: after a Clear tracking, an id is in the persisted tracking set only
\* if it was exported since the clear.
C6_ClearForgetsEarlierExports == storage \subseteq sinceClear

\* C7: as long as tracking is not cleared, the run submits no id whose
\* download has already been done and saved.
C7_NoDuplicateSubmission ==
  [][ (pc = "settle" /\ pc' = "await") => links[i] \notin downloaded ]_vars

\* C8: the run sleeps 1.5 s after every candidate that ended exported or
\* failed, before it goes on.
C8_DelayAfterEveryItem ==
  \A k \in Candidates :
    (item[k].outcome \in {"exported", "failed"} /\ Passed(k))
      => item[k].delayed

\* C9: a candidate whose id could not be written to the persisted tracking
\* set (the service worker's write and the run's own write both failed) is
\* not counted in exported.
C9_UnwrittenNotExported ==
  \A k \in Candidates :
    (item[k].sink = "saveFail" /\ item[k].markFailed)
      => item[k].outcome # "exported"

\* C10: with no clear since the run started, the id of every candidate
\* counted in exported is in the persisted tracking set.
C10_ExportedIsPersisted ==
  ~clearInRun =>
    \A k \in Candidates :
      item[k].outcome = "exported" => links[k] \in storage

\* calls of exportAllConversations that have not returned
RunsInProgress ==
  (IF pc \in {"idle", "done", "aborted"} THEN 0 ELSE 1) + extraRuns

\* C11: at no time are two batch runs in progress: an 'exportAll' request
\* that arrives while a run is in progress starts no second run.
C11_OneRunAtATime == RunsInProgress <= 1

\* C12: candidates are processed in list order and one at a time: every
\* candidate before the present one has its final outcome, no candidate
\* after it has been touched, and a download request in flight is the
\* present candidate's.
C12_OneCandidateAtATime ==
  /\ \A k \in Candidates :
       /\ k < i => item[k].outcome # "none"
       /\ k > i => item[k] = NoItem
  /\ reqState["batch"] # "none" => (pc = "await" /\ reqId["batch"] = links[i])

C12_Witness ==
  /\ pc = "await"
  /\ i = 2
  /\ item[1].outcome = "exported"
  /\ reqState["batch"] = "sent"

\* C13: the run aborts (failure, no tally) exactly when there is no
\* candidate link after the list loader; an aborted run has read and
\* written no tracking set, clicked no link and sent no download request;
\* every other run returns success with a tally.
C13_AbortsIffNoCandidates ==
  /\ pc = "aborted" =>
       /\ Len(links) = 0
       /\ results = NoResults
       /\ i = 0 /\ exportedSet = {} /\ markRead = {}
       /\ \A k \in Candidates : item[k] = NoItem
       /\ reqState["batch"] = "none"
  /\ Len(links) = 0 => pc \in {"idle", "loading", "aborted"}
  /\ pc = "done" => (Len(links) > 0 /\ results.total = Len(links))

C13_Witness == pc = "aborted" /\ swInit = "done"

\* C14: the number of diagnostics in errors equals failed: each candidate
\* that ended failed has appended exactly one, skipped and exported
\* candidates none.
C14_OneDiagnosticPerFailure ==
  /\ Len(results.errors) = results.failed
  /\ Len(results.errors) = Cardinality(WithOutcome("failed"))

C14_Witness ==
  /\ pc = "done"
  /\ Len(results.errors) = 1
  /\ \E k \in Candidates : item[k].outcome = "skipped"

\* C15: extraction and download of a candidate are attempted only after a
\* poll of waitForConversationLoad saw the candidate's id in the URL and a
\* message element; a candidate whose wait timed out is counted failed with
\* one timeout diagnostic, is neither extracted nor submitted, and the run
\* has gone on past it.
C15_ExtractOnlyAfterLoadSeen ==
  /\ \A k \in Candidates :
       /\ (item[k].reached \in {"extracted", "submitted"}
             \/ item[k].sink # "none")
            => item[k].load = "seen"
       /\ item[k].load = "timeout"
            => /\ item[k].outcome = "failed"
               /\ item[k].reached = "clicked"
               /\ item[k].sink = "none"
               /\ i > k
  /\ pc = "settle" => item[i].load = "seen"
  /\ Cardinality({ n \in DOMAIN results.errors : results.errors[n] = "Timeout" })
       = Cardinality({ k \in Candidates : item[k].load = "timeout" })

C15_Witness ==
  /\ pc = "done"
  /\ \E k \in Candidates : item[k].load = "timeout"
  /\ \E k \in Candidates : item[k].load = "seen" /\ item[k].sink = "ok"

\* C16: the list loader performs at most 50 scroll iterations and then
\* returns, also when the recount differs on every iteration, and a run
\* of it that found a scroll container returns with the container scrolled
\* to the top.
C16_LoaderCapAndScrollTop ==
  /\ [](/\ iterations <= maxScrollAttempts
        /\ lPc = "sleep" => attempts = iterations - 1
        /\ (lPc = "done" /\ scrollContainer) => scrollTop = "top")
  /\ (lPc = "sleep") ~> (lPc = "done")

C16_Witness ==
  /\ lPc = "done"
  /\ scrollContainer
  /\ iterations = maxScrollAttempts
  /\ attempts = maxScrollAttempts
  /\ lastCount < currentCount
  /\ scrollTop = "top"

\* C17: the loader stops at the first iteration that completes three
\* iterations in a row whose recount is not greater than the count before,
\* and below the cap not earlier.
C17_StopsAtThreeWithoutGrowth ==
  /\ lPc = "sleep" => noGrowth < noChangeLimit
  /\ (lPc = "done" /\ scrollContainer /\ iterations < maxScrollAttempts)
       => noGrowth >= noChangeLimit

\* C18: at most one debounce timer is pending, the one window.autoSyncTimeout
\* names; every qualifying change leaves exactly the timer it has just set
\* pending; a burst of qualifying changes gives one export, started by the
\* timer of its last change.
C18_OneDebounceTimer ==
  /\ [](/\ Cardinality(pending) <= 1
        /\ pending \subseteq {autoSyncTimeout}
        /\ burstOpen <=> pending # {}
        /\ autoExports + (IF burstOpen THEN 1 ELSE 0) = bursts)
  /\ [][ timersSet' # timersSet =>
           (pending' = {timersSet'} /\ timersSet' \notin pending) ]_vars

C18_Witness ==
  /\ timersSet >= 2
  /\ bursts = 1
  /\ autoExports = 1
  /\ pending = {}

\* C19: with auto-sync enabled at most one subscription is active, and once
\* the set-up that follows a transcript change has run, the watcher is the
\* one subscriber of the container of the transcript now shown.
C19_ResubscribedAfterChange ==
  /\ autoSyncEnabled => Cardinality(subs) <= 1
  /\ (autoSyncEnabled /\ settled = "setup"
        /\ setupTimers.url = 0 /\ setupTimers.init = 0)
       => subs = {[obs |-> observer, target |-> pageUrl]}

\* C20: with fair timers, storage calls and download answers, every started
\* run returns; it goes through the candidates once, in steps of one, never
\* changes a final outcome, never clicks or submits a candidate again, and
\* at its return every candidate has its final outcome.
C20_RunReturnsWithoutRetry ==
  /\ (pc = "loading") ~> (pc \in {"done", "aborted"})
  /\ [](pc = "done" => \A k \in Candidates : item[k].outcome # "none")
  /\ [][ /\ i' \in {i, i + 1}
         /\ (pc = "check" /\ pc' = "wait") => item[i].reached = "none"
         /\ \A k \in Candidates :
              /\ item[k].outcome # "none" =>
                   /\ item'[k].outcome = item[k].outcome
                   /\ item'[k].reached = item[k].reached
                   /\ item'[k].load = item[k].load
                   /\ item'[k].sink = item[k].sink
              /\ item[k].reached = "submitted"
                   => item'[k].reached = "submitted" ]_vars

C20_Witness ==
  /\ pc = "done"
  /\ Len(links) = 2
  /\ item[1].load = "timeout"
  /\ item[2].outcome = "exported"
  /\ item[2].delayed

\* the record and the document of the end-to-end scenario
Greeting ==
  [title |-> << "Greeting" >>, date |-> << >>, url |-> << >>,
   messages |-> << [role |-> "user", content |-> << "Hi" >>],
                   [role |-> "assistant", content |-> << "Hello" >>] >>]

GreetingDocument ==
  << "#", " ", "Greeting", "\n", "\n", "---", "\n", "\n",
     "##", " ", "User", "\n", "\n", "Hi", "\n", "\n", "---", "\n", "\n",
     "##", " ", "Assistant", "\n", "\n", "Hello", "\n", "\n", "---", "\n" >>

\* C21, as stated: formatConversation of the record Greeting (no date, no URL, the
\* messages user "Hi" and assistant "Hello") is GreetingDocument, and a
\* record without date and URL has one blank line between its title line
\* and the first "---".
C21_GreetingDocument ==
  returned =>
    /\ arg = Greeting => ret = GreetingDocument
    /\ (arg.date = << >> /\ arg.url = << >> /\ arg.title # << >>)
         => SubSeq(ret, 3, 6) = arg.title \o << "\n", "\n", "---" >>

GreetingDocumentTwoBlank ==
  << "#", " ", "Greeting", "\n", "\n", "\n", "---", "\n", "\n",
     "##", " ", "User", "\n", "\n", "Hi", "\n", "\n", "---", "\n", "\n",
     "##", " ", "Assistant", "\n", "\n", "Hello", "\n", "\n", "---", "\n" >>

\* C21, amended: formatConversation of the record Greeting is
\* GreetingDocumentTwoBlank; a record without date and URL has two blank
\* lines between its title line and the first "---" (the blank line before
\* and the one after the absent metadata lines), a record with a date has
\* one blank line between its title line and the date line, and every
\* document ends with "---" and a single newline.
C21_GreetingDocumentTwoBlank ==
  returned =>
    /\ arg = Greeting => ret = GreetingDocumentTwoBlank
    /\ (arg.date = << >> /\ arg.url = << >> /\ arg.title # << >>)
         => SubSeq(ret, 3, 7) = arg.title \o << "\n", "\n", "\n", "---" >>
    /\ (arg.date # << >> /\ arg.title # << >>)
         => SubSeq(ret, 3, 6) = arg.title \o << "\n", "\n", "**Date**:" >>
    /\ SubSeq(ret, Len(ret) - 1, Len(ret)) = << "---", "\n" >>

C21_Witness ==
  /\ returned
  /\ arg = Greeting
  /\ ret = GreetingDocumentTwoBlank

\* "Hello_World_Test"
Hello_World_Test ==
  << "H", "e", "l", "l", "o", "_", "W", "o", "r", "l", "d", "_",
     "T", "e", "s", "t" >>

Hello_WorldTest ==
  << "H", "e", "l", "l", "o", "_", "W", "o", "r", "l", "d",
     "T", "e", "s", "t" >>

C23_ReturnsValidTitle ==
  returned =>
    (ret # UntitledConversation
       => Len(ret) >= 2 /\ ~MatchesInvalidPattern(ret))

\* the sidebar links of doc whose href is that of the active conversation
\* and whose trimmed text is a valid title
ValidNavLinks(doc) ==
  {n \in DOMAIN doc.nav :
     /\ doc.currentId # NoId
     /\ doc.nav[n].href = doc.currentId
     /\ Len(Trim(doc.nav[n].text)) >= 2
     /\ ~MatchesInvalidPattern(Trim(doc.nav[n].text))}

\* the header elements of doc whose trimmed text is a valid title
ValidHeaders(doc) ==
  {n \in DOMAIN doc.header :
     /\ doc.header[n].present
     /\ Len(Trim(doc.header[n].text)) >= 2
     /\ ~MatchesInvalidPattern(Trim(doc.header[n].text))}

\* C23, amended: getConversationTitle always returns a non-empty title.
\* When the first sidebar link of the active conversation has a valid text,
\* a valid text of a sidebar link of the active conversation is returned;
\* when no sidebar link of the active conversation has a valid text, the
\* first valid header text is; these are validated.  Without either, the
\* first user message, if it is not blank, is returned cut to 50
\* characters, newlines replaced by blanks, "..." appended when it was
\* longer, WITHOUT validation; otherwise the literal fallback.
C23_ValidatedExceptMessage ==
  LET active == {n \in DOMAIN arg.nav : arg.nav[n].href = arg.currentId}
      navWins == \E n \in ValidNavLinks(arg) : ret = Trim(arg.nav[n].text)
      headerWins ==
        /\ \E n \in ValidHeaders(arg) : ret = Trim(arg.header[n].text)
        /\ \A n \in ValidHeaders(arg) :
             \A m \in ValidHeaders(arg) :
               (ret = Trim(arg.header[n].text) /\ m < n)
                 => Trim(arg.header[m].text) = ret
      messageWins ==
        LET content == Trim(arg.user.text)
        IN  /\ Len(ret) <= titleLimit + 3
            /\ \A n \in DOMAIN ret : ret[n] # "\n"
            /\ Len(content) <= titleLimit
                 => /\ Len(ret) = Len(content)
                    /\ \A n \in DOMAIN ret :
                         ret[n] # content[n] => content[n] = "\n"
            /\ Len(content) > titleLimit
                 => /\ Len(ret) = titleLimit + 3
                    /\ SubSeq(ret, titleLimit + 1, titleLimit + 3)
                         = << ".", ".", "." >>
      rest ==
        IF ValidHeaders(arg) # {} THEN headerWins
        ELSE IF arg.user.present /\ Trim(arg.user.text) # << >>
          THEN messageWins
          ELSE ret = UntitledConversation
  IN  returned =>
        /\ ret # << >>
        /\ (\E n \in ValidNavLinks(arg) : \A m \in active : n <= m) => navWins
        /\ ValidNavLinks(arg) = {} => rest
        /\ navWins \/ rest

\* a first user message "4" is returned as the title
C23_Witness ==
  /\ returned
  /\ arg.user.present
  /\ arg.user.text = << "4" >>
  /\ ret = << "4" >>

\* the elements among nodes and below them, in document order, each with
\* inPre (it has a pre ancestor) and dropped (it or an ancestor is a child
\* of a ul that is not a li)
RECURSIVE Walk(_, _, _, _)
Walk(nodes, inPre, dropped, parentTag) ==
  IF nodes = << >> THEN << >>
  ELSE
    LET node == nodes[1]
        gone == dropped \/ (parentTag = "ul" /\ node.tag # "li")
    IN  (IF node.tag = "#text" THEN << >>
         ELSE << [node |-> node, inPre |-> inPre, dropped |-> gone] >>
              \o Walk(node.kids, inPre \/ node.tag = "pre", gone, node.tag))
        \o Walk(Tail(nodes), inPre, dropped, parentTag)

\* the token sequences between the fence markers of out, in order
Fences(out) ==
  LET marks == SelectSeq([n \in DOMAIN out |-> IF out[n] = Fence THEN n ELSE 0],
                         LAMBDA n : n # 0)
  IN  [k \in 1..(Len(marks) \div 2) |->
         SubSeq(out, marks[2 * k - 1] + 1, marks[2 * k] - 1)]

Contains(s, t) ==
  \E n \in 0..(Len(s) - Len(t)) : SubSeq(s, n + 1, n + Len(t)) = t

Backticks(out) == Cardinality({n \in DOMAIN out : out[n] = Tick})

Lines(out) ==
  LET ends == SelectSeq([n \in 1..(Len(out) + 1) |->
                           IF n = Len(out) + 1 \/ out[n] = "\n"
                             THEN n ELSE 0],
                        LAMBDA n : n # 0)
  IN  [k \in DOMAIN ends |->
         SubSeq(out, (IF k = 1 THEN 0 ELSE ends[k - 1]) + 1, ends[k] - 1)]

\* a table line: it starts with "| " and ends with " |"
IsTableLine(l) ==
  /\ Len(l) >= 4
  /\ SubSeq(l, 1, 2) = << "|", " " >>
  /\ SubSeq(l, Len(l) - 1, Len(l)) = << " ", "|" >>

\* C25: processTable on a table of r >= 1 rows returns r + 1 lines, each a
\* table line, the second of them the separator with one "---" for every
\* cell of the first row and no other line a separator; on a table without
\* rows it returns the empty string.
C25_TableLines ==
  returned =>
    LET r == Len(arg.kids)
        lines == Lines(ret)
        separator(n) ==
          << "|", " " >>
          \o JoinSeq([c \in 1..n |-> << "---" >>], << " ", "|", " " >>)
          \o << " ", "|" >>
    IN  IF r = 0 THEN ret = << >>
        ELSE /\ Len(lines) = r + 1
             /\ \A k \in DOMAIN lines : IsTableLine(lines[k])
             /\ lines[2] = separator(Len(arg.kids[1].kids))
             /\ \A k \in DOMAIN lines :
                  (k # 2 /\ Len(arg.kids[1].kids) > 0)
                    => lines[k] # separator(Len(arg.kids[1].kids))

\* rule 1 matches: the code element has a class with one of the prefixes
ClassRule(pre) ==
  /\ pre.code.present
  /\ \E n \in DOMAIN pre.code.classes :
       \/ StartsWith(pre.code.classes[n], LanguagePrefix)
       \/ StartsWith(pre.code.classes[n], LangPrefix)

\* rule 3 matches: an ancestor has "language-" and a word character
\* after it in its class attribute
AncestorRule(pre) ==
  \E n \in DOMAIN pre.ancestors :
    \E k \in DOMAIN pre.ancestors[n] :
      /\ k > Len(LanguagePrefix)
      /\ SubSeq(pre.ancestors[n], k - Len(LanguagePrefix), k - 1)
           = LanguagePrefix
      /\ pre.ancestors[n][k] \in WordChars

\* C26, as stated: detectLanguage returns the empty string only if none of
\* the three rules matches.
C26_EmptyOnlyWithoutMatch ==
  returned =>
    (ret = << >>
       => ~ClassRule(arg) /\ ~arg.label.present /\ ~AncestorRule(arg))

\* C26, amended: the first rule whose element exists decides, and its
\* result may be empty.  A prefixed class of the code element gives the
\* first such class without its prefix (empty for the class "language-");
\* otherwise a label element gives its trimmed lower-cased text (empty for
\* a blank label); otherwise the NEAREST of the pre and its ancestors whose
\* class attribute contains "language-" gives the word after it, and the
\* empty string if no word character follows, whatever farther ancestors
\* hold; otherwise the result is empty.
C26_FirstPresentRuleDecides ==
  LET classes == arg.code.classes
      hinting == {n \in DOMAIN arg.ancestors :
                    \E k \in DOMAIN arg.ancestors[n] :
                      /\ k >= Len(LanguagePrefix)
                      /\ SubSeq(arg.ancestors[n], k - Len(LanguagePrefix) + 1, k)
                           = LanguagePrefix}
  IN  returned =>
        IF ClassRule(arg)
          THEN \E n \in DOMAIN classes :
                 /\ \/ LanguagePrefix \o ret = classes[n]
                    \/ /\ LangPrefix \o ret = classes[n]
                       /\ ~StartsWith(classes[n], LanguagePrefix)
                 /\ \A m \in 1..(n - 1) :
                      /\ ~StartsWith(classes[m], LanguagePrefix)
                      /\ ~StartsWith(classes[m], LangPrefix)
        ELSE IF arg.label.present
          THEN /\ \A n \in DOMAIN ret : ret[n] \notin WhiteSpace \cup {"G", "O"}
               /\ Len(ret) = Cardinality({n \in DOMAIN arg.label.text :
                                            arg.label.text[n] \notin WhiteSpace})
        ELSE IF hinting # {}
          THEN LET near == arg.ancestors[CHOOSE n \in hinting :
                                           \A m \in hinting : n <= m]
               IN  IF ret = << >>
                     THEN \A k \in DOMAIN near :
                            (k > Len(LanguagePrefix)
                             /\ SubSeq(near, k - Len(LanguagePrefix), k - 1)
                                  = LanguagePrefix)
                              => near[k] \notin WordChars
                     ELSE /\ Contains(near, LanguagePrefix \o ret)
                          /\ \A n \in DOMAIN ret : ret[n] \in WordChars
        ELSE ret = << >>

\* the class "language-" of the code element gives the empty string
C26_Witness ==
  /\ returned
  /\ arg.code.present
  /\ arg.code.classes = << LanguagePrefix >>
  /\ ret = << >>

\* the positions of the groups of page that have the role user or
\* assistant, a content element, and a conversion that is not blank
Qualifying(page) ==
  {n \in DOMAIN page.groups :
     /\ page.groups[n].role \in {"user", "assistant"}
     /\ page.groups[n].content # << >>
     /\ \E k \in DOMAIN htmlToMarkdown(page.groups[n].content[1]) :
          htmlToMarkdown(page.groups[n].content[1])[k] \notin WhiteSpace}

\* C27: extractCurrentConversation returns null if and only if no group
\* qualifies; otherwise the messages of its record are the qualifying
\* groups, all of them and no other, in document order, each with its
\* role and its conversion.
C27_MessagesAreQualifyingGroups ==
  returned =>
    /\ ret = << >> <=> Qualifying(arg) = {}
    /\ ret # << >> =>
         LET messages == ret[1].messages
         IN  /\ Len(messages) = Cardinality(Qualifying(arg))
             /\ \E at \in [DOMAIN messages -> Qualifying(arg)] :
                  /\ \A m, n \in DOMAIN messages : m < n => at[m] < at[n]
                  /\ \A n \in DOMAIN messages :
                       /\ messages[n].role = arg.groups[at[n]].role
                       /\ messages[n].content
                            = htmlToMarkdown(arg.groups[at[n]].content[1])

\* a page whose first group has another role and whose second group is a
\* user message: the record has the one message
C27_Witness ==
  /\ returned
  /\ Len(arg.groups) = 2
  /\ arg.groups[1].role = "tool"
  /\ arg.groups[1].content # << >>
  /\ ret # << >>
  /\ Len(ret[1].messages) = 1
  /\ ret[1].messages[1].role = "user"

\* C28: in a batch run, the document of every download request sent for
\* a candidate was extracted from the conversation with the candidate's id.
C28_DocumentOfTheCandidate ==
  \A k \in DOMAIN links :
    item[k].reached = "submitted" => docFrom[k] = links[k]

\* C29: while auto-sync is disabled (disableAutoSync has returned and
\* enableAutoSync has not been called since) no watcher-triggered export
\* starts, whatever timers were pending at the time of the call.
C29_NoExportWhileDisabled ==
  [][autoExports' # autoExports => autoSyncEnabled]_vars

\* C30: the single-item path goes on to markAsExported (the tracking write
\* of the content script, after which it returns the success it got)
\* only if the Download Sink answered success.
C30_MarksOnlyAfterSinkSuccess ==
  [][(sPc = "await" /\ sPc' = "markGet") => reqState["single"] = "ok"]_vars

\* C31: the progress events of a batch run are: first one scrolling event
\* with current = 0; then, for the candidates in list order, 'checking'
\* with current = the candidate's position, followed by 'loading' only if
\* the candidate is not skipped (and then always), followed by 'exporting'
\* only if its load was confirmed; current never decreases and is never
\* above total.
C31_ProgressSequence ==
  /\ pc # "idle" => progress # << >>
  /\ \A n \in DOMAIN progress :
       LET e == progress[n]
       IN  /\ e.current <= e.total
           /\ n = 1 <=> e.status = "scrolling sidebar"
           /\ n = 1 => e.current = 0
           /\ n > 1 =>
                /\ e.total = Len(links)
                /\ e.current \in 1..Len(links)
                /\ progress[n - 1].current <= e.current
                /\ e.status \in {"checking", "loading", "exporting"}
                /\ e.status = "checking"
                     => /\ progress[n - 1].current = e.current - 1
                        /\ n > 2 =>
                             \/ progress[n - 1].status # "checking"
                             \/ item[e.current - 1].outcome = "skipped"
                /\ e.status = "loading"
                     => /\ progress[n - 1].status = "checking"
                        /\ progress[n - 1].current = e.current
                        /\ item[e.current].outcome # "skipped"
                /\ e.status = "exporting"
                     => /\ progress[n - 1].status = "loading"
                        /\ progress[n - 1].current = e.current
                        /\ item[e.current].load = "seen"

\* a run that skipped its first candidate and confirmed the load of its
\* second: scrolling, checking 1, checking 2, loading 2, exporting 2
C31_Witness ==
  /\ Len(progress) = 5
  /\ item[1].outcome = "skipped"
  /\ progress[2].status = "checking" /\ progress[2].current = 1
  /\ progress[3].status = "checking" /\ progress[3].current = 2
  /\ progress[4].status = "loading"
  /\ progress[5].status = "exporting" /\ progress[5].current = 2

====
